---- MODULE Spec2Model ----
(***************************************************************************)
(* im2col: the layout transforms of src/im2col.py.                         *)
(*                                                                         *)
(* Tensors are records [shape |-> <<d1,d2,d3,d4>>, a |-> function] whose   *)
(* function maps 0-based index tuples to integers; matrices are records    *)
(* [rows, ncols, a] with a over <<row, col>>.  Index vectors (numpy 1-D    *)
(* arrays) are sequences, element e of the array being seq[e+1].           *)
(*                                                                         *)
(* The integer arithmetic is that of the interpreter the module was        *)
(* written for (cPickle, text-mode pickle in reader.py): `/` on ints is    *)
(* floor division.                                                         *)
(***************************************************************************)
EXTENDS Integers, Sequences, FiniteSets, TLC

\* ---------------------------------------------------------------- bounds
\* N * C of a data tensor
MaxPlanes == 2
\* channel count of a filter tensor
MaxC == 2
\* filter count K
MaxK == 3
\* extent of the padded frame along an axis: H + 2*padding_h, W + 2*padding_w
MaxFrame == 3
\* kernel extent R, S
MaxKernel == 2
MaxStride == 2

\* ------------------------------------------------------- numpy primitives
Max2(a, b) == IF a >= b THEN a ELSE b
Min2(a, b) == IF a <= b THEN a ELSE b

\* np.arange(n): 0, 1, ..., n-1
Arange(n) == [x \in 1..n |-> x - 1]

\* np.repeat(a, n): every element repeated n times in place
Repeat(a, n) == [x \in 1..(Len(a) * n) |-> a[((x - 1) \div n) + 1]]

\* np.tile(a, n): the whole vector repeated n times
Tile(a, n) == [x \in 1..(Len(a) * n) |-> a[((x - 1) % Len(a)) + 1]]

\* scalar * vector
Scale(c, a) == [x \in 1..Len(a) |-> c * a[x]]

\* a.reshape(-1,1) + b.reshape(1,-1): the outer sum, 0-based <<row, col>>
OuterSum(a, b) ==
  [rc \in (0..(Len(a) - 1)) \X (0..(Len(b) - 1)) |-> a[rc[1] + 1] + b[rc[2] + 1]]

\* the index set of a 4-D array of the given shape
Idx4(shape) ==
  (0..(shape[1] - 1)) \X (0..(shape[2] - 1)) \X (0..(shape[3] - 1)) \X (0..(shape[4] - 1))

\* position of a 4-D index in the C-contiguous (row-major) buffer
Ravel4(shape, ix) ==
  ((ix[1] * shape[2] + ix[2]) * shape[3] + ix[3]) * shape[4] + ix[4]

\* and of a 2-D index
Ravel2(ncols, rc) == rc[1] * ncols + rc[2]

\* faulty variant: the buffer read in column-major (Fortran) order
Unravel4_F(shape, f) ==
  << f % shape[1],
     (f \div shape[1]) % shape[2],
     (f \div (shape[1] * shape[2])) % shape[3],
     f \div (shape[1] * shape[2] * shape[3]) >>

\* the 4-D index at a position of the row-major buffer
Unravel4(shape, f) ==
  << f \div (shape[2] * shape[3] * shape[4]),
     (f \div (shape[3] * shape[4])) % shape[2],
     (f \div shape[4]) % shape[3],
     f % shape[4] >>

Unravel2(ncols, f) == << f \div ncols, f % ncols >>

\* np.arange(size).reshape(shape), offset by base
ArangeTensor(shape, base) ==
  [shape |-> shape, a |-> [ix \in Idx4(shape) |-> base + Ravel4(shape, ix)]]

\* np.pad(data, ((0,0),(0,0),(ph,ph),(pw,pw)), mode='constant')
Pad(t, ph, pw) ==
  LET sh == << t.shape[1], t.shape[2], t.shape[3] + 2 * ph, t.shape[4] + 2 * pw >>
  IN [shape |-> sh,
      a |-> [ix \in Idx4(sh) |->
               IF /\ ix[3] >= ph /\ ix[3] < ph + t.shape[3]
                  /\ ix[4] >= pw /\ ix[4] < pw + t.shape[4]
               THEN t.a[<< ix[1], ix[2], ix[3] - ph, ix[4] - pw >>]
               ELSE 0]]

\* ----------------------------------------------------- get_im2col_indices
\* line 128: the height check
AssertH(H, R, stride_h, padding_h) == (H - R + 2 * padding_h) % stride_h = 0

\* line 129: the width check, which reads H where line 131 reads W
AssertW(H, W, S, stride_w, padding_w) == (H - S + 2 * padding_w) % stride_w = 0

\* lines 130-131: output extents
OutP(H, R, stride_h, padding_h) == ((H - R + 2 * padding_h) \div stride_h) + 1
OutQ(W, S, stride_w, padding_w) == ((W - S + 2 * padding_w) \div stride_w) + 1

NoIndices == [err |-> "none", P |-> 0, Q |-> 0, k |-> << >>, i |-> << >>, j |-> << >>]

\* faulty variant: the channel count taken from the filter shape
get_im2col_indices_FilterC(x_shape, filters_shape, stride_h, stride_w, padding_h, padding_w) ==
  LET C == filters_shape[2]
      H == x_shape[3]
      W == x_shape[4]
      R == filters_shape[3]
      S == filters_shape[4]
  IN IF ~AssertH(H, R, stride_h, padding_h) \/ ~AssertW(H, W, S, stride_w, padding_w)
     THEN [NoIndices EXCEPT !.err = "AssertionError"]
     ELSE
       LET P == OutP(H, R, stride_h, padding_h)
           Q == OutQ(W, S, stride_w, padding_w)
           i0 == Tile(Repeat(Arange(R), S), C)
           i1 == Scale(stride_h, Repeat(Arange(P), Q))
           j0 == Tile(Arange(S), R * C)
           j1 == Scale(stride_w, Tile(Arange(Q), P))
       IN [err |-> "none", P |-> P, Q |-> Q,
           k |-> Repeat(Arange(C), R * S),
           i |-> OuterSum(i0, i1),
           j |-> OuterSum(j0, j1)]

get_im2col_indices(x_shape, filters_shape, stride_h, stride_w, padding_h, padding_w) ==
  LET C == x_shape[2]
      H == x_shape[3]
      W == x_shape[4]
      R == filters_shape[3]
      S == filters_shape[4]
  IN IF ~AssertH(H, R, stride_h, padding_h) \/ ~AssertW(H, W, S, stride_w, padding_w)
     THEN [NoIndices EXCEPT !.err = "AssertionError"]
     ELSE
       LET P == OutP(H, R, stride_h, padding_h)
           Q == OutQ(W, S, stride_w, padding_w)
           i0 == Tile(Repeat(Arange(R), S), C)
           i1 == Scale(stride_h, Repeat(Arange(P), Q))
           j0 == Tile(Arange(S), R * C)
           j1 == Scale(stride_w, Tile(Arange(Q), P))
       IN [err |-> "none", P |-> P, Q |-> Q,
           k |-> Repeat(Arange(C), R * S),
           i |-> OuterSum(i0, i1),
           j |-> OuterSum(j0, j1)]

\* -------------------------------------------------------------- data_to_2d
NoMatrix == [rows |-> 0, ncols |-> 0, a |-> << >>]
NoTensor == [shape |-> << 0, 0, 0, 0 >>, a |-> << >>]

\* the source coordinate of entry (n, row, col) of t[:, k, i, j]
Coord(idx, n, rc) == << n, idx.k[rc[1] + 1], idx.i[rc], idx.j[rc] >>

\* the entries (row, col) of the index table
Entries(idx) == DOMAIN idx.i

\* numpy raises IndexError when an index leaves the indexed axis
InBounds(shape, idx) ==
  \A rc \in Entries(idx) : Coord(idx, 0, rc) \in Idx4(<< 1, shape[2], shape[3], shape[4] >>)

\* data_padded[:, k, i, j], shape (N, C*R*S, P*Q)
Gather(t, idx) ==
  [nrc \in (0..(t.shape[1] - 1)) \X Entries(idx) |->
     t.a[Coord(idx, nrc[1], << nrc[2][1], nrc[2][2] >>)]]

\* faulty variant: the blocks interleaved column by column
Concatenate_Interleaved(g, N, rows, bw) ==
  [rows |-> rows, ncols |-> N * bw,
   a |-> [rc \in (0..(rows - 1)) \X (0..(N * bw - 1)) |->
            g[<< rc[2] % N, << rc[1], rc[2] \div N >> >>]]]

\* np.concatenate(g, axis=1) of the N blocks g[0], ..., g[N-1]
Concatenate(g, N, rows, bw) ==
  [rows |-> rows, ncols |-> N * bw,
   a |-> [rc \in (0..(rows - 1)) \X (0..(N * bw - 1)) |->
            g[<< rc[2] \div bw, << rc[1], rc[2] % bw >> >>]]]

data_to_2d(data, filters, stride_h, stride_w, padding_h, padding_w) ==
  LET data_padded == Pad(data, padding_h, padding_w)
      idx == get_im2col_indices(data.shape, filters.shape,
                                stride_h, stride_w, padding_h, padding_w)
  IN IF idx.err # "none" THEN [err |-> idx.err, m |-> NoMatrix]
     ELSE IF ~InBounds(data_padded.shape, idx) THEN [err |-> "IndexError", m |-> NoMatrix]
     ELSE [err |-> "none",
           m |-> Concatenate(Gather(data_padded, idx), data.shape[1],
                             Len(idx.k), idx.P * idx.Q)]

\* ---------------------------------------------------------- data2d_to_orig
\* np.hsplit(data_2d, N)[n][row, col], an axis of length 1 broadcasting
HSplit(m, N, n, rc) ==
  LET bw == m.ncols \div N
  IN m.a[<< IF m.rows = 1 THEN 0 ELSE rc[1],
            n * bw + (IF bw = 1 THEN 0 ELSE rc[2]) >>]

\* the entries of the index table that address position pos of x_padded
Hits(idx, pos) ==
  {rc \in Entries(idx) : Coord(idx, pos[1], rc) = pos}

RECURSIVE SumHits(_, _, _, _)
SumHits(m, N, n, hits) ==
  IF hits = {} THEN 0
  ELSE LET rc == CHOOSE o \in hits : TRUE
       IN HSplit(m, N, n, rc) + SumHits(m, N, n, hits \ {rc})

\* faulty variant: np.add.at, every addressed entry added
IndexedAddAt(m, N, idx, pos, hits, keep) == SumHits(m, N, pos[1], hits)

\* `x_padded[:, k, i, j] += cols` reads x_padded[:, k, i, j] (all zero), adds
\* cols and assigns the sums back through the same indices.  A position
\* addressed by several entries is assigned several times and keeps one of
\* the assigned values; numpy does not fix which (its implementation keeps
\* the last in iteration order).  keep names the entry that is kept, the
\* first or the last in row-major order.
IndexedAddAssign(m, N, idx, pos, hits, keep) ==
  LET bw == idx.P * idx.Q
      kept == CHOOSE rc \in hits :
                \A o \in hits :
                  IF keep = "last" THEN Ravel2(bw, o) <= Ravel2(bw, rc)
                                   ELSE Ravel2(bw, o) >= Ravel2(bw, rc)
  IN 0 + HSplit(m, N, pos[1], kept)

\* faulty variant: x[:-a]
SliceStart_Zero(L, a) == 0

\* x[a:-a] along an axis of length L
SliceStart(L, a) == Min2(a, L)
SliceStop(L, a) == IF a = 0 THEN 0 ELSE Max2(L - a, 0)
SliceLen(L, a) == Max2(SliceStop(L, a) - SliceStart(L, a), 0)

\* lines 117-119: the height axis is cut by padding_w, the width axis by
\* padding_h
Crop(x, padding_h, padding_w) ==
  IF padding_h = 0 /\ padding_w = 0 THEN x
  ELSE
    LET sh == << x.shape[1], x.shape[2],
                 SliceLen(x.shape[3], padding_w), SliceLen(x.shape[4], padding_h) >>
    IN [shape |-> sh,
        a |-> [ix \in Idx4(sh) |->
                 x.a[<< ix[1], ix[2],
                        ix[3] + SliceStart(x.shape[3], padding_w),
                        ix[4] + SliceStart(x.shape[4], padding_h) >>]]]

\* lines 108-115: the padded buffer after the indexed +=
Scatter(data_2d, data_shape, idx, padding_h, padding_w, keep) ==
  LET sh == << data_shape[1], data_shape[2],
               data_shape[3] + 2 * padding_h, data_shape[4] + 2 * padding_w >>
  IN [shape |-> sh,
      a |-> [pos \in Idx4(sh) |->
               LET hits == Hits(idx, pos)
               IN IF hits = {} THEN 0
                  ELSE IndexedAddAssign(data_2d, data_shape[1], idx, pos, hits, keep)]]

data2d_to_orig(data_2d, data_shape, filter_shape, stride_h, stride_w, padding_h, padding_w, keep) ==
  LET idx == get_im2col_indices(data_shape, << 0, 0, filter_shape[1], filter_shape[2] >>,
                                stride_h, stride_w, padding_h, padding_w)
      N == data_shape[1]
  IN IF idx.err # "none"
     THEN [err |-> idx.err, x_padded |-> NoTensor, x |-> NoTensor]
     ELSE IF \/ data_2d.ncols % N # 0
             \/ data_2d.rows \notin {1, Len(idx.k)}
             \/ (data_2d.ncols \div N) \notin {1, idx.P * idx.Q}
     THEN [err |-> "ValueError", x_padded |-> NoTensor, x |-> NoTensor]
     ELSE LET x_padded == Scatter(data_2d, data_shape, idx, padding_h, padding_w, keep)
          IN [err |-> "none", x_padded |-> x_padded,
              x |-> Crop(x_padded, padding_h, padding_w)]

\* ------------------------------------------- filter_to_2d, filter2d_to_orig
\* a.reshape keeps the row-major buffer and reads it with the new shape
filter_to_2d(filters) ==
  LET K == filters.shape[1]
      ncols == filters.shape[2] * filters.shape[3] * filters.shape[4]
  IN [rows |-> K, ncols |-> ncols,
      a |-> [rc \in (0..(K - 1)) \X (0..(ncols - 1)) |->
               filters.a[Unravel4(filters.shape, Ravel2(ncols, rc))]]]

\* faulty variant: the kernel extents taken in the order (S, R)
filter2d_to_orig_SR(filter_2d, shape) ==
  LET R == shape[2]
      S == shape[1]
  IN IF filter_2d.ncols % (R * S) # 0
     THEN [err |-> "ValueError", t |-> NoTensor]
     ELSE LET sh == << filter_2d.rows, filter_2d.ncols \div (R * S), R, S >>
          IN [err |-> "none",
              t |-> [shape |-> sh,
                     a |-> [ix \in Idx4(sh) |->
                              filter_2d.a[Unravel2(filter_2d.ncols, Ravel4(sh, ix))]]]]

filter2d_to_orig(filter_2d, shape) ==
  LET R == shape[1]
      S == shape[2]
  IN IF filter_2d.ncols % (R * S) # 0
     THEN [err |-> "ValueError", t |-> NoTensor]
     ELSE LET sh == << filter_2d.rows, filter_2d.ncols \div (R * S), R, S >>
          IN [err |-> "none",
              t |-> [shape |-> sh,
                     a |-> [ix \in Idx4(sh) |->
                              filter_2d.a[Unravel2(filter_2d.ncols, Ravel4(sh, ix))]]]]

\* ------------------------------------------------------------------ state
VARIABLES
  data,          \* the (N,C,H,W) data tensor
  filters,       \* the (K,C,R,S) filter tensor
  stride_h, stride_w, padding_h, padding_w,
  pc,            \* which call returned last
  err,           \* the exception that call raised, or "none"
  indices,       \* result of get_im2col_indices
  data_2d,       \* result of data_to_2d
  arg_2d,        \* the matrix handed to data2d_to_orig
  x_padded,      \* data2d_to_orig's buffer after the indexed +=
  data_orig,     \* result of data2d_to_orig
  filter_2d,     \* result of filter_to_2d
  rs,            \* the (R,S) handed to filter2d_to_orig
  filter_orig    \* result of filter2d_to_orig

vars == << data, filters, stride_h, stride_w, padding_h, padding_w, pc, err,
           indices, data_2d, arg_2d, x_padded, data_orig, filter_2d, rs, filter_orig >>

inputs == << data, filters, stride_h, stride_w, padding_h, padding_w >>

\* np.arange(rows*ncols).reshape(rows, ncols) + base
ArangeMatrix(rows, ncols, base) ==
  [rows |-> rows, ncols |-> ncols,
   a |-> [rc \in (0..(rows - 1)) \X (0..(ncols - 1)) |-> base + Ravel2(ncols, rc)]]

\* One axis of a call: <<extent, padding, kernel extent, stride>>, with the
\* kernel inside the padded frame (so that P >= 1, Q >= 1).
AxisConfigs ==
  {x \in (1..MaxFrame) \X (0..MaxFrame) \X (1..MaxKernel) \X (1..MaxStride) :
     x[1] + 2 * x[2] <= MaxFrame /\ x[3] <= x[1] + 2 * x[2]}

\* (N, C) of the data tensors
PlaneShapes == {nc \in (1..MaxPlanes) \X (1..MaxPlanes) : nc[1] * nc[2] <= MaxPlanes}

\* Nothing has been called.
Init ==
  /\ data = NoTensor
  /\ filters = NoTensor
  /\ stride_h = 1
  /\ stride_w = 1
  /\ padding_h = 0
  /\ padding_w = 0
  /\ pc = "start"
  /\ err = "none"
  /\ indices = NoIndices
  /\ data_2d = NoMatrix
  /\ arg_2d = NoMatrix
  /\ x_padded = NoTensor
  /\ data_orig = NoTensor
  /\ filter_2d = NoMatrix
  /\ rs = << 0, 0 >>
  /\ filter_orig = NoTensor

\* The arguments of a call on data: a data tensor with entries 1, 2, ... (so
\* that no entry equals the padding value), a filter tensor, of which only
\* the shape is read and K not at all, strides and paddings.
ChooseCall(nc, fc, h, w) ==
  /\ data' = ArangeTensor(<< nc[1], nc[2], h[1], w[1] >>, 1)
  /\ filters' = ArangeTensor(<< 1, fc, h[3], w[3] >>, 0)
  /\ stride_h' = h[4]
  /\ stride_w' = w[4]
  /\ padding_h' = h[2]
  /\ padding_w' = w[2]

GetIm2colIndices ==
  /\ pc = "start"
  /\ \E nc \in PlaneShapes, fc \in 1..MaxC, h \in AxisConfigs, w \in AxisConfigs :
       ChooseCall(nc, fc, h, w)
  /\ indices' = get_im2col_indices(data'.shape, filters'.shape,
                                   stride_h', stride_w', padding_h', padding_w')
  /\ err' = indices'.err
  /\ pc' = "indices"
  /\ UNCHANGED << data_2d, arg_2d, x_padded, data_orig, filter_2d, rs, filter_orig >>

DataTo2d ==
  /\ pc = "start"
  /\ \E nc \in PlaneShapes, fc \in 1..MaxC, h \in AxisConfigs, w \in AxisConfigs :
       ChooseCall(nc, fc, h, w)
  /\ LET r == data_to_2d(data', filters', stride_h', stride_w', padding_h', padding_w')
     IN /\ err' = r.err
        /\ data_2d' = r.m
  /\ pc' = "data_2d"
  /\ UNCHANGED << indices, arg_2d, x_padded, data_orig, filter_2d, rs, filter_orig >>

\* data2d_to_orig on the matrix data_to_2d returned, or on another matrix of
\* that shape, with the data's shape, the filter's (R,S) and the strides and
\* paddings of the forward call
Data2dToOrig ==
  /\ pc = "data_2d"
  /\ err = "none"
  /\ \E m \in {data_2d, ArangeMatrix(data_2d.rows, data_2d.ncols, 1)},
        keep \in {"first", "last"} :
       LET r == data2d_to_orig(m, data.shape, << filters.shape[3], filters.shape[4] >>,
                               stride_h, stride_w, padding_h, padding_w, keep)
       IN /\ arg_2d' = m
          /\ err' = r.err
          /\ x_padded' = r.x_padded
          /\ data_orig' = r.x
  /\ pc' = "data_orig"
  /\ UNCHANGED << inputs, indices, data_2d, filter_2d, rs, filter_orig >>

FilterTo2d ==
  /\ pc = "start"
  /\ \E K \in 1..MaxK, C \in 1..MaxC, R \in 1..MaxKernel, S \in 1..MaxKernel :
       filters' = ArangeTensor(<< K, C, R, S >>, 0)
  /\ filter_2d' = filter_to_2d(filters')
  /\ pc' = "filter_2d"
  /\ UNCHANGED << data, stride_h, stride_w, padding_h, padding_w, err, indices,
                  data_2d, arg_2d, x_padded, data_orig, rs, filter_orig >>

Filter2dToOrig ==
  /\ pc = "filter_2d"
  /\ \E shape \in (1..MaxKernel) \X (1..MaxKernel) :
       LET r == filter2d_to_orig(filter_2d, shape)
       IN /\ rs' = shape
          /\ err' = r.err
          /\ filter_orig' = r.t
  /\ pc' = "filter_orig"
  /\ UNCHANGED << inputs, indices, data_2d, arg_2d, x_padded, data_orig, filter_2d >>

Next ==
  \/ GetIm2colIndices
  \/ DataTo2d
  \/ Data2dToOrig
  \/ FilterTo2d
  \/ Filter2dToOrig

Spec == Init /\ [][Next]_vars

\* the calls on data: data_to_2d, then data2d_to_orig
NextData == DataTo2d \/ Data2dToOrig
SpecData == Init /\ [][NextData]_vars

\* the calls on filters: filter_to_2d, then filter2d_to_orig
NextFilter == FilterTo2d \/ Filter2dToOrig
SpecFilter == Init /\ [][NextFilter]_vars

\* get_im2col_indices alone
NextIndices == GetIm2colIndices
SpecIndices == Init /\ [][NextIndices]_vars

TypeOK == pc \in {"start", "indices", "data_2d", "data_orig", "filter_2d", "filter_orig"}

\* ------------------------------------------------- vocabulary of the claims
dN == data.shape[1]
dC == data.shape[2]
dH == data.shape[3]
dW == data.shape[4]
fK == filters.shape[1]
fC == filters.shape[2]
fR == filters.shape[3]
fS == filters.shape[4]

\* the documented validity condition and output extents
ValidConfig ==
  /\ (dH - fR + 2 * padding_h) % stride_h = 0
  /\ (dW - fS + 2 * padding_w) % stride_w = 0
SpecP == ((dH - fR + 2 * padding_h) \div stride_h) + 1
SpecQ == ((dW - fS + 2 * padding_w) \div stride_w) + 1

\* the two assertions as get_im2col_indices evaluates them
ChecksPass ==
  /\ (dH - fR + 2 * padding_h) % stride_h = 0
  /\ (dH - fS + 2 * padding_w) % stride_w = 0

\* the zero-padded data at a coordinate of the padded frame
PaddedAt(n, c, y, x) ==
  IF /\ y >= padding_h /\ y < padding_h + dH
     /\ x >= padding_w /\ x < padding_w + dW
  THEN data.a[<< n, c, y - padding_h, x - padding_w >>]
  ELSE 0

\* kernel offsets and output positions <<r, s, p, q>>
Windows == (0..(fR - 1)) \X (0..(fS - 1)) \X (0..(SpecP - 1)) \X (0..(SpecQ - 1))

\* those whose receptive field puts (r, s) on row y, column x
WindowsAt(y, x) ==
  {w \in Windows : w[3] * stride_h + w[1] = y /\ w[4] * stride_w + w[2] = x}

\* the patch-matrix entry of channel c, window w, batch element n
EntryOf(m, n, c, w) ==
  m.a[<< c * fR * fS + w[1] * fS + w[2], n * SpecP * SpecQ + w[3] * SpecQ + w[4] >>]

PaddedFrame == Idx4(<< dN, dC, dH + 2 * padding_h, dW + 2 * padding_w >>)

RECURSIVE SumOver(_, _, _, _)
SumOver(m, n, c, ws) ==
  IF ws = {} THEN 0
  ELSE LET w == CHOOSE v \in ws : TRUE
       IN EntryOf(m, n, c, w) + SumOver(m, n, c, ws \ {w})

\* data_to_2d's result is laid out as documented
LayoutOK ==
  /\ data_2d.rows = dC * fR * fS
  /\ data_2d.ncols = dN * SpecP * SpecQ
  /\ \A n \in 0..(dN - 1), c \in 0..(dC - 1), w \in Windows :
       EntryOf(data_2d, n, c, w)
         = PaddedAt(n, c, w[3] * stride_h + w[1], w[4] * stride_w + w[2])

\* ---------------------------------------------------------------- claims
\* C1: in every valid configuration data_to_2d returns the (C*R*S, N*P*Q)
\* matrix whose entry at row c*R*S + r*S + s, column n*P*Q + p*Q + q is the
\* zero-padded data at [n, c, p*stride_h + r, q*stride_w + s].
C1_DataTo2dLayout ==
  (pc = "data_2d" /\ ValidConfig) => (err = "none" /\ LayoutOK)

C3_RejectsInvalid ==
  (pc = "indices" /\ ~ValidConfig)
    => /\ err = "AssertionError"
       /\ indices.k = << >> /\ indices.i = << >> /\ indices.j = << >>

\* C4 (as stated): with stride below the kernel extent every position of the
\* reconstructed buffer is the sum of the patch-matrix entries that map to it.
C4_Accumulates ==
  (pc = "data_orig" /\ err = "none" /\ ValidConfig
     /\ (stride_h < fR \/ stride_w < fS))
    => \A pos \in PaddedFrame :
         x_padded.a[pos] = SumOver(arg_2d, pos[1], pos[2], WindowsAt(pos[3], pos[4]))

\* C4 (amended): with stride below the kernel extent every position of the
\* buffer that some entry maps to holds one of those entries, every other
\* position holds 0, and on data_to_2d's result a covered position holds the
\* zero-padded data there, whatever the number of windows covering it.
C4_KeepsOneEntry ==
  (pc = "data_orig" /\ err = "none" /\ (stride_h < fR \/ stride_w < fS))
    => \A pos \in PaddedFrame :
         LET ws == WindowsAt(pos[3], pos[4])
         IN /\ ws = {} => x_padded.a[pos] = 0
            /\ ws # {} =>
                 /\ \E w \in ws : x_padded.a[pos] = EntryOf(arg_2d, pos[1], pos[2], w)
                 /\ arg_2d = data_2d =>
                      x_padded.a[pos] = PaddedAt(pos[1], pos[2], pos[3], pos[4])

C4_Witness ==
  /\ pc = "data_orig" /\ err = "none" /\ ValidConfig
  /\ stride_h < fR /\ stride_w < fS
  /\ \E pos \in PaddedFrame :
       /\ Cardinality(WindowsAt(pos[3], pos[4])) = 4
       /\ x_padded.a[pos] # 0
       /\ x_padded.a[pos] # SumOver(arg_2d, pos[1], pos[2], WindowsAt(pos[3], pos[4]))

\* C5: with strides (1,1) and paddings (0,0), R <= H and S <= W,
\* data2d_to_orig(data_to_2d(D)) equals D.
C5_RoundTripUnitStride ==
  /\ (pc = "data_2d" /\ stride_h = 1 /\ stride_w = 1 /\ padding_h = 0 /\ padding_w = 0)
       => err = "none"
  /\ (pc = "data_orig" /\ arg_2d = data_2d
        /\ stride_h = 1 /\ stride_w = 1 /\ padding_h = 0 /\ padding_w = 0)
       => (err = "none" /\ data_orig = data)

C5_Witness ==
  /\ pc = "data_orig" /\ arg_2d = data_2d
  /\ stride_h = 1 /\ stride_w = 1 /\ padding_h = 0 /\ padding_w = 0
  /\ data.shape = << 2, 1, 3, 3 >> /\ fR = 2 /\ fS = 2
  /\ data_orig = data

\* C6: filter2d_to_orig(filter_to_2d(F), (R,S)) equals F.
C6_FilterRoundTrip ==
  (pc = "filter_orig" /\ rs = << fR, fS >>) => (err = "none" /\ filter_orig = filters)

C6_Witness ==
  /\ pc = "filter_orig" /\ rs = << fR, fS >>
  /\ filters.shape = << 2, 2, 2, 1 >>
  /\ filter_orig = filters

\* C7: filter_to_2d returns the (K, C*R*S) matrix whose entry
\* [k, c*R*S + r*S + s] is F[k,c,r,s], without error.
C7_FilterTo2dLayout ==
  pc = "filter_2d" =>
    /\ err = "none"
    /\ filter_2d.rows = fK
    /\ filter_2d.ncols = fC * fR * fS
    /\ \A ix \in Idx4(filters.shape) :
         filter_2d.a[<< ix[1], ix[2] * fR * fS + ix[3] * fS + ix[4] >>] = filters.a[ix]

C7_Witness ==
  /\ pc = "filter_2d"
  /\ filters.shape = << 2, 2, 2, 2 >>
  /\ filter_2d.a[<< 1, 7 >>] = filters.a[<< 1, 1, 1, 1 >>]

\* C8: in every valid configuration data2d_to_orig returns a tensor of shape
\* (N,C,H,W), the padded buffer without its padding_h top and bottom rows
\* and its padding_w left and right columns.
C8_CropsToDataShape ==
  (pc = "data_orig" /\ err = "none" /\ ValidConfig)
    => /\ data_orig.shape = data.shape
       /\ \A ix \in Idx4(data.shape) :
            data_orig.a[ix]
              = x_padded.a[<< ix[1], ix[2], ix[3] + padding_h, ix[4] + padding_w >>]

\* C9: every valid configuration is accepted by get_im2col_indices, which
\* returns the index triple.
C9_AcceptsValid ==
  (pc = "indices" /\ ValidConfig)
    => (err = "none" /\ Len(indices.k) = dC * fR * fS)

\* C10 (as stated): data_to_2d with a filter whose channel count differs from
\* the data's fails with an array-shape error.
C10_MismatchFails ==
  (pc = "data_2d" /\ fC # dC) => err \in {"IndexError", "ValueError"}

\* C10 (amended): data_to_2d does not read the filter's channel count; with a
\* mismatch it raises no array-shape error, fails exactly when the checks of
\* get_im2col_indices fail, and otherwise returns the matrix of the data's C
\* channels in the documented layout.
C10_MismatchIgnored ==
  (pc = "data_2d" /\ fC # dC)
    => /\ err \in {"none", "AssertionError"}
       /\ err = "none" <=> ChecksPass
       /\ (err = "none" /\ ValidConfig) => LayoutOK

C10_Witness ==
  /\ pc = "data_2d" /\ fC = 2 /\ dC = 1
  /\ err = "none" /\ ValidConfig /\ LayoutOK
  /\ data_2d.rows = fR * fS

====
